---- MODULE Spec2Model ----
(***************************************************************************)
(* Model of rempower's DNS subcommand (src/subcommands/dns.rs, cli.rs).   *)
(*                                                                         *)
(* Text is a sequence of tokens.  A token is one character (" ", "\n",     *)
(* "\r", ":") or an indivisible piece of text (an address, an interface    *)
(* name, one of the marker phrases the code searches for).  `contains` of  *)
(* a marker phrase is therefore membership of the marker token.            *)
(***************************************************************************)
EXTENDS Integers, Sequences, FiniteSets, TLC

SP == " "
NL == "\n"
CR == "\r"
COLON == ":"

\* marker phrases of dns.rs
ASTERISK_NOTE == "An asterisk"
DISABLED_MARK == "(*)"
NS_MARK == "nameserver["
NO_DNS_MARK == "There aren't any DNS Servers set on"

PUBLIC_DNS == << <<"1.1.1.1">>, <<"2606:4700:4700::1111">>, <<"8.8.4.4">>, <<"2001:4860:4860::8844">> >>

EMPTY_ARG == << <<"empty">> >>

Range(s) == {s[i] : i \in 1..Len(s)}

\* ---------------------------------------------------------------- bounds
MaxListLines == 2
MaxParseLines == 3
MaxScutilLines == 3

\* ------------------------------------------------------- str primitives
IsSpace(c) == c \in {SP, NL, CR}

RECURSIVE TrimStart(_)
TrimStart(s) ==
    IF s = <<>> THEN <<>>
    ELSE IF IsSpace(Head(s)) THEN TrimStart(Tail(s)) ELSE s

RECURSIVE TrimEnd(_)
TrimEnd(s) ==
    IF s = <<>> THEN <<>>
    ELSE IF IsSpace(s[Len(s)]) THEN TrimEnd(SubSeq(s, 1, Len(s) - 1)) ELSE s

\* str::trim
Trim(s) == TrimEnd(TrimStart(s))

\* str::contains for a marker phrase
Contains(s, marker) == \E i \in 1..Len(s) : s[i] = marker

\* a line ending "\r\n" loses the "\r" as well
StripCR(line) ==
    IF line # <<>> /\ line[Len(line)] = CR THEN SubSeq(line, 1, Len(line) - 1) ELSE line

RECURSIVE LinesFrom(_, _)
LinesFrom(s, cur) ==
    IF s = <<>> THEN (IF cur = <<>> THEN <<>> ELSE <<cur>>)
    ELSE IF Head(s) = NL THEN <<StripCR(cur)>> \o LinesFrom(Tail(s), <<>>)
    ELSE LinesFrom(Tail(s), Append(cur, Head(s)))

\* str::lines
Lines(s) == LinesFrom(s, <<>>)

\* str::split_once(':') as an Option: <<>> is None, <<rest>> is Some((_, rest))
RECURSIVE AfterFirstColon(_)
AfterFirstColon(line) ==
    IF line = <<>> THEN <<>>
    ELSE IF Head(line) = COLON THEN <<Tail(line)>> ELSE AfterFirstColon(Tail(line))

\* map(|line| line.trim().to_string())
RECURSIVE TrimAll(_)
TrimAll(ls) == IF ls = <<>> THEN <<>> ELSE <<Trim(Head(ls))>> \o TrimAll(Tail(ls))

\* ------------------------------------------------------ active_networks
IsActiveLineDisabledOnly(line) == ~Contains(line, DISABLED_MARK)

IsActiveLine(line) == ~Contains(line, ASTERISK_NOTE) /\ ~Contains(line, DISABLED_MARK)

RECURSIVE FilterActive(_)
FilterActive(ls) ==
    IF ls = <<>> THEN <<>>
    ELSE IF IsActiveLine(Head(ls)) THEN <<Head(ls)>> \o FilterActive(Tail(ls))
    ELSE FilterActive(Tail(ls))

\* the parsing half of active_networks: trim, lines, filter, map(trim)
active_networks(output) == TrimAll(FilterActive(Lines(Trim(output))))

\* ------------------------------------------------ manual_dns_of_network
manual_dns_parse(output) == TrimAll(Lines(output))

\* ---------------------------------------------- extract_dns_from_scutil
SeqContains(v, x) == \E i \in 1..Len(v) : v[i] = x

PushAlways(dns_servers, ip) == Append(dns_servers, ip)

PushIfAbsent(dns_servers, ip) ==
    IF ~SeqContains(dns_servers, ip) THEN Append(dns_servers, ip) ELSE dns_servers

StartsWithNs(line) == Trim(line) # <<>> /\ Head(Trim(line)) = NS_MARK

RECURSIVE ExtractLoop(_, _)
ExtractLoop(ls, dns_servers) ==
    IF ls = <<>> THEN dns_servers
    ELSE LET line == Head(ls)
             ip_part == AfterFirstColon(line)
         IN  IF StartsWithNs(line) /\ ip_part # <<>>
             THEN ExtractLoop(Tail(ls), PushIfAbsent(dns_servers, Trim(ip_part[1])))
             ELSE ExtractLoop(Tail(ls), dns_servers)

extract_dns_from_scutil(scutil_output) == ExtractLoop(Lines(scutil_output), <<>>)

\* ------------------------------------------------------- host boundary
\* how one external command can end: it runs and exits 0, it cannot be
\* spawned, it exits non-zero, or its stdout is not valid UTF-8
Status == {"ok", "spawn_fail", "nonzero", "bad_utf8"}

RECURSIVE JoinLines(_)
JoinLines(ls) == IF ls = <<>> THEN <<>> ELSE Head(ls) \o <<NL>> \o JoinLines(Tail(ls))

SeqsUpTo(S, n) == UNION {[1..k -> S] : k \in 0..n}

\* lines `networksetup -listallnetworkservices` may print
ListLineSet ==
    { <<"Wi-Fi">>, <<"Ethernet">>,
      <<ASTERISK_NOTE, SP, DISABLED_MARK, SP, "denotes that a network service is disabled.">>,
      <<DISABLED_MARK, "Thunderbolt Bridge">> }

ListTexts == {JoinLines(ls) : ls \in SeqsUpTo(ListLineSet, MaxListLines)}

NoDnsLine == <<NO_DNS_MARK, SP, "Wi-Fi.">>

\* outputs `networksetup -getdnsservers` may print
GetTexts ==
    { JoinLines(PUBLIC_DNS),
      JoinLines(<< <<"1.1.1.1">> >>),
      JoinLines(<< <<SP, "1.1.1.1", SP, CR>>, <<"8.8.4.4">>, <<"2606:4700:4700::1111">> >>),
      JoinLines(<< <<"9.9.9.9">> >>),
      JoinLines(<< NoDnsLine >>),
      <<>> }

NsLine(i, ip) == <<SP, SP, NS_MARK, i, "]", SP, COLON, SP, ip>>

\* outputs `scutil --dns` may print
ScutilTexts ==
    { JoinLines(<< <<"resolver #1">>, NsLine("0", "192.168.1.1"), NsLine("1", "192.168.1.1") >>),
      JoinLines(<< <<"resolver #1">>, NsLine("0", "192.168.1.1"), NsLine("1", "10.0.0.1") >>),
      JoinLines(<< <<"DNS configuration">> >>) }

\* ---------------------------------------------------------------- state
VARIABLES
    args,        \* DnsArgs: the three mode flags of the invocation
    pc,          \* position of the (single) thread of control
    mode,        \* branch taken by perform: "pub", "dhcp", "list" or "none"
    result,      \* "running", "ok" (Ok(())), "err" (Err(..)), "usage" (clap rejected)
    networks,    \* Vec<String> returned by active_networks
    idx,         \* index in networks of the interface being processed
    dns_result,  \* current_dns_servers: result of the manual query
    trace,       \* host calls issued and lines printed, in order
    input,       \* text handed to a parser
    output       \* what the parser returned

vars == <<args, pc, mode, result, networks, idx, dns_result, trace, input, output>>

Event(kind, net, status, raw, val) ==
    [kind |-> kind, net |-> net, status |-> status, raw |-> raw, val |-> val]

DnsArgsSet == [pub_dns : BOOLEAN, dhcp : BOOLEAN, list : BOOLEAN]

\* stdout of a command that ended with `st`: text when it ran, nothing otherwise
Stdout(st, texts) == IF st \in {"ok", "nonzero"} THEN texts ELSE {<<>>}

\* ------------------------------------------------------------ cli::DnsArgs
FlagCount(a) ==
    (IF a.pub_dns THEN 1 ELSE 0) + (IF a.dhcp THEN 1 ELSE 0) + (IF a.list THEN 1 ELSE 0)

GroupAtLeastOne(a) == FlagCount(a) >= 1

\* #[group(required = true, multiple = false)]
GroupOk(a) == FlagCount(a) = 1

\* ------------------------------------------------------------ dns::perform
perform(a) ==
    IF a.dhcp THEN "dhcp"
    ELSE IF a.pub_dns THEN "pub"
    ELSE IF a.list THEN "list"
    ELSE "none"

\* -------------------------------------------------------- apply-mode parts
\* dns_servers argument of apply_dns_config
SetArgs(md) == IF md = "pub" THEN PUBLIC_DNS ELSE EMPTY_ARG

PubValidateAny(current_dns) ==
    \E p \in 1..Len(PUBLIC_DNS) : \E k \in 1..Len(current_dns) : current_dns[k] = PUBLIC_DNS[p]

\* validate closure of enable_pub_dns
PubValidate(current_dns) ==
    \A p \in 1..Len(PUBLIC_DNS) : \E k \in 1..Len(current_dns) : current_dns[k] = PUBLIC_DNS[p]

\* validate closure of enable_dhcp_dns
DhcpValidate(current_dns) ==
    \E k \in 1..Len(current_dns) : Contains(current_dns[k], NO_DNS_MARK)

Validate(md, current_dns) ==
    IF md = "pub" THEN PubValidate(current_dns) ELSE DhcpValidate(current_dns)

ValidateBranchAbort(valid) ==
    [status |-> IF valid THEN "OK" ELSE "NotOK", abort |-> ~valid]

\* if validate(..) { println!(OK) } else { println!(Not OK) }: neither arm returns
ValidateBranch(valid) ==
    [status |-> IF valid THEN "OK" ELSE "NotOK", abort |-> FALSE]

UpdateFailsSpawnOnly(st) == st = "spawn_fail"

\* update_dns_servers: `output()?` and `!output.status.success()`; stdout is not read
UpdateFails(st) == st \in {"spawn_fail", "nonzero"}

\* output()? and str::from_utf8(..)? ; the exit status is not looked at
ReadFails(st) == st \in {"spawn_fail", "bad_utf8"}

\* ------------------------------------------------- current_dns_servers
NoManualDnsAlways(res) == TRUE

\* dns_result.iter().any(|dns| dns.contains("There aren't any DNS Servers set on"))
NoManualDns(res) == \E k \in 1..Len(res) : Contains(res[k], NO_DNS_MARK)

FallbackChoiceSwapped(res, dns_servers) == IF dns_servers = <<>> THEN dns_servers ELSE res

\* if dns_servers.is_empty() { Ok(dns_result) } else { Ok(dns_servers) }
FallbackChoice(res, dns_servers) == IF dns_servers = <<>> THEN res ELSE dns_servers

UsesFallbackAnyMode(md) == TRUE

\* print_current_dns resolves with current_dns_servers, apply_dns_config
\* with manual_dns_of_network only
UsesFallback(md) == md = "list"

\* -------------------------------------------------------------- actions
Idle ==
    /\ mode = "none" /\ result = "running" /\ networks = <<>> /\ idx = 0
    /\ dns_result = <<>> /\ trace = <<>>

Init ==
    /\ args \in DnsArgsSet
    /\ pc = "start"
    /\ Idle
    /\ input = <<>> /\ output = <<>>

FirstStep(md) == IF md = "list" THEN "get" ELSE "set"

\* `?` on an Err: the error unwinds through perform
Abort(evs) ==
    /\ trace' = trace \o evs
    /\ pc' = "done"
    /\ result' = "err"
    /\ dns_result' = <<>>
    /\ UNCHANGED <<args, mode, networks, idx, input, output>>

\* the `for network in networks` loop moves on, or ends and Ok(()) is returned
LoopNext(evs) ==
    /\ trace' = trace \o evs
    /\ dns_result' = <<>>
    /\ IF idx < Len(networks)
         THEN idx' = idx + 1 /\ pc' = FirstStep(mode) /\ result' = result
         ELSE idx' = idx /\ pc' = "done" /\ result' = "ok"
    /\ UNCHANGED <<args, mode, networks, input, output>>

\* what the caller of the resolver does with the resolved list
Report(evs, net, resolved) ==
    IF mode = "list"
    THEN LoopNext(evs \o <<Event("report", net, "listed", <<>>, resolved)>>)
    ELSE LET b == ValidateBranch(Validate(mode, resolved))
             out == evs \o <<Event("report", net, b.status, <<>>, resolved)>>
         IN  IF b.abort THEN Abort(out) ELSE LoopNext(out)

\* Cli::parse() and perform
Dispatch ==
    /\ pc = "start"
    /\ IF ~GroupOk(args)
         THEN pc' = "done" /\ result' = "usage" /\ mode' = mode
         ELSE /\ mode' = perform(args)
              /\ pc' = IF perform(args) = "none" THEN "done" ELSE "enumerate"
              /\ result' = IF perform(args) = "none" THEN "ok" ELSE result
    /\ UNCHANGED <<args, networks, idx, dns_result, trace, input, output>>

ActiveNetworks ==
    /\ pc = "enumerate"
    /\ \E st \in Status : \E text \in Stdout(st, ListTexts) :
         LET nets == active_networks(text) IN
         IF ReadFails(st)
         THEN Abort(<<Event("list", <<>>, st, text, <<>>)>>)
         ELSE /\ trace' = Append(trace, Event("list", <<>>, st, text, nets))
              /\ networks' = nets
              /\ IF nets = <<>>
                   THEN idx' = 0 /\ pc' = "done" /\ result' = "ok"
                   ELSE idx' = 1 /\ pc' = FirstStep(mode) /\ result' = result
              /\ UNCHANGED <<args, mode, dns_result, input, output>>

UpdateDnsServers ==
    /\ pc = "set"
    /\ \E st \in Status :
         LET net == networks[idx]
             evs == << Event("announce", net, "printed", <<>>, <<>>),
                       Event("set", net, st, <<>>, SetArgs(mode)) >>
         IN  IF UpdateFails(st)
             THEN Abort(evs)
             ELSE /\ trace' = trace \o evs
                  /\ pc' = "get"
                  /\ UNCHANGED <<args, mode, result, networks, idx, dns_result, input, output>>

ManualDnsOfNetwork ==
    /\ pc = "get"
    /\ \E st \in Status : \E text \in Stdout(st, GetTexts) :
         LET net == networks[idx]
             res == manual_dns_parse(text)
         IN  IF ReadFails(st)
             THEN Abort(<<Event("get", net, st, text, <<>>)>>)
             ELSE IF UsesFallback(mode) /\ NoManualDns(res)
             THEN /\ trace' = Append(trace, Event("get", net, st, text, res))
                  /\ dns_result' = res
                  /\ pc' = "scutil"
                  /\ UNCHANGED <<args, mode, result, networks, idx, input, output>>
             ELSE Report(<<Event("get", net, st, text, res)>>, net, res)

ScutilDns ==
    /\ pc = "scutil"
    /\ \E st \in Status : \E text \in Stdout(st, ScutilTexts) :
         LET net == networks[idx]
             dns_servers == extract_dns_from_scutil(text)
         IN  IF ReadFails(st)
             THEN Abort(<<Event("scutil", <<>>, st, text, <<>>)>>)
             ELSE Report(<<Event("scutil", <<>>, st, text, dns_servers)>>, net,
                         FallbackChoice(dns_result, dns_servers))

Next == Dispatch \/ ActiveNetworks \/ UpdateDnsServers \/ ManualDnsOfNetwork \/ ScutilDns

Spec == Init /\ [][Next]_vars

\* ------------------------------------------------ parsers on their own
ParseLineSet ==
    { <<>>, <<SP>>, <<"Wi-Fi">>, <<SP, "Wi-Fi", SP>>, <<"Ethernet", CR>>,
      <<ASTERISK_NOTE, SP, DISABLED_MARK, SP, "denotes that a network service is disabled.">>,
      <<ASTERISK_NOTE, SP, "marks a disabled service">>,
      <<DISABLED_MARK, "Thunderbolt Bridge">> }

\* the lines joined by "\n", with and without a final "\n"
TextsOf(lineSet, n) ==
    LET joined == {JoinLines(ls) : ls \in SeqsUpTo(lineSet, n)}
    IN  joined \cup {SubSeq(t, 1, Len(t) - 1) : t \in joined \ {<<>>}}

InitList ==
    /\ args = [pub_dns |-> FALSE, dhcp |-> FALSE, list |-> TRUE]
    /\ pc = "parse_list"
    /\ Idle
    /\ input \in TextsOf(ParseLineSet, MaxParseLines)
    /\ output = <<>>

ParseList ==
    /\ pc = "parse_list"
    /\ output' = active_networks(input)
    /\ pc' = "parsed"
    /\ UNCHANGED <<args, mode, result, networks, idx, dns_result, trace, input>>

NextList == ParseList

SpecList == InitList /\ [][NextList]_vars

ScutilLineSet ==
    { <<>>,
      NsLine("0", "192.168.1.1"),
      <<NS_MARK, "1", "]", COLON, "192.168.1.1", SP, CR>>,
      NsLine("2", "10.0.0.1"),
      <<NS_MARK, "0", "]", SP, COLON, SP, "fe80", COLON, COLON, "1">>,
      <<NS_MARK, "0", "]", SP, "10.0.0.1">>,
      <<"domain", SP, COLON, SP, "10.0.0.1">>,
      <<"x", SP, NS_MARK, "0", "]", COLON, "8.8.8.8">>,
      <<NS_MARK, "3", "]", SP, COLON>> }

InitScutil ==
    /\ args = [pub_dns |-> FALSE, dhcp |-> FALSE, list |-> TRUE]
    /\ pc = "parse_scutil"
    /\ Idle
    /\ input \in TextsOf(ScutilLineSet, MaxScutilLines)
    /\ output = <<>>

ParseScutil ==
    /\ pc = "parse_scutil"
    /\ output' = extract_dns_from_scutil(input)
    /\ pc' = "parsed"
    /\ UNCHANGED <<args, mode, result, networks, idx, dns_result, trace, input>>

NextScutil == ParseScutil

SpecScutil == InitScutil /\ [][NextScutil]_vars

\* ============================================================== properties
IsCall(e) == e.kind \in {"list", "set", "get", "scutil"}

AllCallsOk == \A i \in 1..Len(trace) : IsCall(trace[i]) => trace[i].status = "ok"

ApplyMode == mode \in {"pub", "dhcp"}

\* the manual result reports "none configured"
NoneConfigured(lst) == \E k \in 1..Len(lst) : NO_DNS_MARK \in Range(lst[k])

NoDuplicates(s) == \A a, b \in 1..Len(s) : a # b => s[a] # s[b]

FirstIdx(s, x) == CHOOSE i \in 1..Len(s) : s[i] = x /\ \A j \in 1..(i - 1) : s[j] # x

\* C1: in an apply-mode run, a set-DNS call that cannot be run or exits
\* non-zero is the last thing the run does: the run ends with an error, and
\* no call or report for any later interface follows it.
C1_AbortOnSetFailure ==
    \A i \in 1..Len(trace) :
        (trace[i].kind = "set" /\ trace[i].status \in {"spawn_fail", "nonzero"})
            => /\ i = Len(trace)
               /\ pc = "done"
               /\ result = "err"

C1_Witness ==
    /\ pc = "done" /\ result = "err" /\ mode = "pub" /\ Len(networks) = 2
    /\ Len(trace) = 3
    /\ trace[3].kind = "set" /\ trace[3].status = "nonzero" /\ trace[3].net = networks[1]

\* C2 (as stated): in PublicDns mode an interface is reported OK exactly
\* when at least one public address is in the list read back after the set.
C2_AnyAddressSuffices ==
    \A i \in 1..Len(trace) :
        (mode = "pub" /\ trace[i].kind = "report")
            => (trace[i].status = "OK"
                    <=> \E a \in Range(PUBLIC_DNS) : a \in Range(trace[i].val))

\* C2 (amended): in PublicDns mode an interface is reported OK exactly when
\* every address of the public list is in the manual list read back for that
\* interface after the set call.
C2_AllAddressesRequired ==
    \A i \in 1..Len(trace) :
        (mode = "pub" /\ trace[i].kind = "report")
            => /\ i > 1 /\ trace[i - 1].kind = "get"
               /\ trace[i - 1].net = trace[i].net
               /\ trace[i - 1].val = trace[i].val
               /\ (trace[i].status = "OK"
                    <=> \A a \in Range(PUBLIC_DNS) : a \in Range(trace[i].val))

C2_Witness ==
    /\ mode = "pub"
    /\ \E i \in 1..Len(trace) :
         /\ trace[i].kind = "report" /\ trace[i].status = "NotOK"
         /\ <<"1.1.1.1">> \in Range(trace[i].val)
         /\ <<"8.8.4.4">> \in Range(trace[i].val)

\* C3: a host call (list, set, get, scutil) that cannot be run, exits
\* non-zero or prints undecodable output is the last call of the run, and
\* the run ends with an error.
C3_AnyFailedCallAborts ==
    \A i \in 1..Len(trace) :
        (IsCall(trace[i]) /\ trace[i].status # "ok")
            => /\ i = Len(trace)
               /\ pc = "done"
               /\ result = "err"

\* C4: the system-wide resolver query is only ever issued right after a
\* manual query of the interface being resolved whose result is "none
\* configured"; after a manual result without the sentinel it is not issued.
C4_FallbackOnlyAfterSentinel ==
    /\ \A i \in 1..Len(trace) :
         trace[i].kind = "scutil"
            => /\ i > 1 /\ trace[i - 1].kind = "get"
               /\ NoneConfigured(trace[i - 1].val)
    /\ pc = "scutil"
         => /\ trace # <<>> /\ trace[Len(trace)].kind = "get"
            /\ trace[Len(trace)].net = networks[idx]
            /\ NoneConfigured(trace[Len(trace)].val)

C4_Witness ==
    /\ mode = "list" /\ Len(trace) = 5
    /\ trace[2].kind = "get" /\ ~NoneConfigured(trace[2].val) /\ trace[2].val # <<>>
    /\ trace[3].kind = "report"
    /\ trace[4].kind = "get" /\ NoneConfigured(trace[4].val)
    /\ trace[5].kind = "scutil"

\* C5: what list mode prints for an interface is the manual list when that
\* is not the sentinel; otherwise the duplicate-free nameserver list of the
\* system-wide query when that is non-empty, and the manual sentinel result
\* when it is empty.
C5_ResolverResult ==
    \A i \in 1..Len(trace) :
        (trace[i].kind = "report" /\ trace[i].status = "listed")
            => /\ i > 1
               /\ IF trace[i - 1].kind = "get"
                  THEN /\ trace[i - 1].net = trace[i].net
                       /\ ~NoneConfigured(trace[i - 1].val)
                       /\ trace[i].val = trace[i - 1].val
                  ELSE /\ trace[i - 1].kind = "scutil"
                       /\ i > 2 /\ trace[i - 2].kind = "get"
                       /\ trace[i - 2].net = trace[i].net
                       /\ NoneConfigured(trace[i - 2].val)
                       /\ LET sys == extract_dns_from_scutil(trace[i - 1].raw)
                          IN  /\ NoDuplicates(sys)
                              /\ trace[i].val = IF sys # <<>> THEN sys ELSE trace[i - 2].val

C5_Witness ==
    /\ mode = "list" /\ Len(trace) = 4
    /\ trace[2].kind = "get" /\ NoneConfigured(trace[2].val)
    /\ trace[3].kind = "scutil"
    /\ trace[3].raw = JoinLines(<< <<"resolver #1">>, NsLine("0", "192.168.1.1"),
                                    NsLine("1", "192.168.1.1") >>)
    /\ trace[4].kind = "report" /\ trace[4].val = << <<"192.168.1.1">> >>

CountKind(k) == Cardinality({i \in 1..Len(trace) : trace[i].kind = k})

\* C6: a "Not OK" report in apply mode does not end the run: right after it
\* the run is at the set call of the next interface or has returned Ok, and
\* a finished run without a failed host call has issued the set and get
\* call of every interface and returned Ok.
C6_MismatchContinues ==
    /\ (ApplyMode /\ trace # <<>> /\ trace[Len(trace)].kind = "report"
            /\ trace[Len(trace)].status = "NotOK")
         => \/ /\ pc = "set" /\ idx >= 2 /\ networks[idx - 1] = trace[Len(trace)].net
            \/ /\ pc = "done" /\ result = "ok" /\ idx = Len(networks)
               /\ networks[idx] = trace[Len(trace)].net
    /\ (ApplyMode /\ pc = "done" /\ AllCallsOk
            /\ \E i \in 1..Len(trace) : trace[i].status = "NotOK")
         => /\ result = "ok"
            /\ CountKind("set") = Len(networks)
            /\ CountKind("get") = Len(networks)
            /\ CountKind("report") = Len(networks)

C6_Witness ==
    /\ mode = "pub" /\ pc = "done" /\ result = "ok" /\ AllCallsOk
    /\ Len(networks) = 2 /\ Len(trace) = 9
    /\ trace[5].kind = "report" /\ trace[5].status = "NotOK"
    /\ trace[7].kind = "set" /\ trace[8].kind = "get"

FlagsSet(a) == {f \in {"pub_dns", "dhcp", "list"} : a[f]}

ModeOfFlag(f) == IF f = "pub_dns" THEN "pub" ELSE f

\* C7: once the arguments are handled, exactly the mode of the single flag
\* runs when one flag is set; with zero or several flags the invocation is
\* rejected as a usage error and no host call was or will be issued.
C7_ExactlyOneMode ==
    pc \in {"enumerate", "set", "get", "scutil", "done"}
        => IF Cardinality(FlagsSet(args)) = 1
           THEN /\ result # "usage"
                /\ \A f \in FlagsSet(args) : mode = ModeOfFlag(f)
                /\ \A i \in 1..Len(trace) :
                     /\ trace[i].kind = "set" =>
                            /\ mode \in {"pub", "dhcp"}
                            /\ trace[i].val = IF mode = "pub" THEN PUBLIC_DNS ELSE << <<"empty">> >>
                     /\ trace[i].kind = "scutil" => mode = "list"
           ELSE /\ result = "usage" /\ pc = "done"
                /\ mode = "none" /\ trace = <<>>

C7_Witness ==
    /\ result = "usage" /\ pc = "done" /\ args.pub_dns /\ args.list /\ ~args.dhcp

\* a line that declares a nameserver: the marker first (after indentation),
\* and a colon somewhere
DeclaresNs(line) ==
    /\ \E i \in 1..Len(line) :
         line[i] = NS_MARK /\ \A j \in 1..(i - 1) : IsSpace(line[j])
    /\ COLON \in Range(line)

\* the text after the first colon of the line, without surrounding blanks
AddrOf(line) ==
    LET c == CHOOSE i \in 1..Len(line) : line[i] = COLON /\ \A j \in 1..(i - 1) : line[j] # COLON
    IN  Trim(SubSeq(line, c + 1, Len(line)))

\* the addresses of the nameserver lines of a text, in input order
NsAddrs(text) ==
    LET decl == SelectSeq(Lines(text), DeclaresNs)
    IN  [k \in 1..Len(decl) |-> AddrOf(decl[k])]

\* C8: the result of resolver-state parsing has no duplicates, holds exactly
\* the addresses of the nameserver lines of the input (other lines give
\* nothing), and orders them by their first occurrence in the input.
C8_DedupFirstOccurrence ==
    pc = "parsed"
        => LET ips == NsAddrs(input)
           IN  /\ NoDuplicates(output)
               /\ Range(output) = Range(ips)
               /\ \A a, b \in 1..Len(output) :
                    a < b => FirstIdx(ips, output[a]) < FirstIdx(ips, output[b])

C8_Witness ==
    /\ pc = "parsed"
    /\ Len(Lines(input)) = 3 /\ Len(NsAddrs(input)) = 3
    /\ NsAddrs(input)[1] = NsAddrs(input)[3] /\ NsAddrs(input)[1] # NsAddrs(input)[2]
    /\ output = <<NsAddrs(input)[1], NsAddrs(input)[2]>>

HasInactiveMarker(line) == ASTERISK_NOTE \in Range(line) \/ DISABLED_MARK \in Range(line)

KeptLines(ls) == {i \in 1..Len(ls) : ~HasInactiveMarker(ls[i])}

NthOf(K, n) == CHOOSE i \in K : Cardinality({j \in K : j < i}) = n - 1

\* out is the unmarked lines of ls, each trimmed, in the order of ls
IsUnmarkedLinesOf(out, ls) ==
    /\ Len(out) = Cardinality(KeptLines(ls))
    /\ \A n \in 1..Len(out) : out[n] = Trim(ls[NthOf(KeptLines(ls), n)])

\* C9 (as stated): interface-list parsing returns the trimmed lines of the
\* input that carry no inactive marker, in input order, and drops no other
\* line.
C9_KeepsEveryUnmarkedLine ==
    pc = "parsed" => IsUnmarkedLinesOf(output, Lines(input))

\* C9 (amended): interface-list parsing first strips leading and trailing
\* whitespace (blank lines included) from the whole text, and returns the
\* trimmed lines of what remains that carry no inactive marker, in input
\* order; of those lines only the marked ones are dropped.
C9_KeepsUnmarkedLinesOfTrimmedText ==
    pc = "parsed" => IsUnmarkedLinesOf(output, Lines(Trim(input)))

C9_Witness ==
    /\ pc = "parsed"
    /\ Len(Lines(input)) = 3
    /\ Lines(input)[1] = <<>>
    /\ HasInactiveMarker(Lines(input)[2])
    /\ output = << <<"Wi-Fi">> >>

RECURSIVE ExpectedApplyShape(_)
ExpectedApplyShape(nets) ==
    IF nets = <<>> THEN <<>>
    ELSE << <<"announce", Head(nets)>>, <<"set", Head(nets)>>,
            <<"get", Head(nets)>>, <<"report", Head(nets)>> >>
         \o ExpectedApplyShape(Tail(nets))

Shape(tr) == [i \in 1..Len(tr) |-> <<tr[i].kind, tr[i].net>>]

IsPrefix(s, t) == Len(s) <= Len(t) /\ SubSeq(t, 1, Len(s)) = s

\* C10: in an apply-mode run without a failed host call the calls and
\* reports are: one enumeration, then per interface in enumeration order
\* one set, one manual get and the report, nothing repeated and no
\* system-wide query; a finished run has gone through all of it.
C10_SequentialApplyTrace ==
    (ApplyMode /\ AllCallsOk /\ pc \in {"set", "get", "scutil", "done"})
        => LET expected == << <<"list", <<>> >> >> \o ExpectedApplyShape(networks)
           IN  /\ IsPrefix(Shape(trace), expected)
               /\ pc = "done" => Shape(trace) = expected
               /\ pc = "set" => Len(trace) = 1 + 4 * (idx - 1)
               /\ pc = "get" => Len(trace) = 3 + 4 * (idx - 1)
               /\ pc # "scutil"

C10_Witness ==
    /\ mode = "dhcp" /\ pc = "done" /\ result = "ok" /\ AllCallsOk
    /\ Len(networks) = 2 /\ networks[1] # networks[2]
    /\ Len(trace) = 9
    /\ NoneConfigured(trace[4].val)

====
